---- MODULE Spec2Model ----
(***************************************************************************)
(* A model of app.py: the heuristic news analyzer, the three Flask         *)
(* handlers (index, feedback, upload) and the two JSON-backed stores.      *)
(*                                                                         *)
(* Python strings are sequences of one-character strings, so that lower(), *)
(* strip(), rsplit(), the substring test `in`, urlparse and the URL regex  *)
(* are computed character by character.  Python's None is the value None   *)
(* below, which is no sequence of characters.  Floats that hold a number   *)
(* of percent are integers in hundredths of a percent (75.0 is 7500) and   *)
(* the analyzer's scores are integers in hundredths (0.7 is 70).           *)
(***************************************************************************)
EXTENDS Integers, Sequences, FiniteSets, TLC

VARIABLES
    text,            \* analyzer harness: the text handed to analyze_text
    prediction,      \* analyzer harness: what analyze_text returned (NoPrediction before the call)
    feedback_store,  \* app.py:35   the in-memory dict  news_id -> {"real": n, "fake": m}
    feedback_file,   \* app.py:21   the JSON document in feedback.json
    uploads_store,   \* app.py:38   the in-memory list of {"filename", "topic"}
    uploads_file,    \* app.py:22   the JSON document in uploads.json
    upload_folder,   \* app.py:15   the names of the files saved under static/uploads/
    request,         \* the request the last handler run served
    response,        \* what that handler returned
    fetch_calls,     \* the fetchers that handler called, with how each call ended
    threads          \* concurrent feedback handlers: each one's position and locals

vars == << text, prediction, feedback_store, feedback_file, uploads_store,
           uploads_file, upload_folder, request, response, fetch_calls, threads >>

(***************************************************************************)
(* Bounds of the model.                                                    *)
(***************************************************************************)
MaxPieces == 3

MaxVotes == 4

MaxUploads == 2

MaxArticles == 2

----------------------------------------------------------------------------
(***************************************************************************)
(* Python values and string methods.                                       *)
(***************************************************************************)
None == <<"None">>

Uppers == <<"A","B","C","D","E","F","G","H","I","J","K","L","M","N","O","P","Q","R","S","T","U","V","W","X","Y","Z">>

Lowers == <<"a","b","c","d","e","f","g","h","i","j","k","l","m","n","o","p","q","r","s","t","u","v","w","x","y","z">>

Digits == <<"0","1","2","3","4","5","6","7","8","9">>

Range(s) == { s[i] : i \in 1..Len(s) }

\* str.lower() on one character
LowerOf == [ c \in Range(Uppers) |-> Lowers[CHOOSE i \in 1..Len(Uppers) : Uppers[i] = c] ]

lower_char(c) == IF c \in DOMAIN LowerOf THEN LowerOf[c] ELSE c

\* str.lower()
lower(s) == [ i \in 1..Len(s) |-> lower_char(s[i]) ]

\* sub in s
Contains(sub, s) ==
    \E i \in 1..(Len(s) - Len(sub) + 1) : SubSeq(s, i, i + Len(sub) - 1) = sub

\* s.startswith(prefix, at - 1), at counted from 1
StartsWithAt(s, prefix, at) ==
    /\ at + Len(prefix) - 1 <= Len(s)
    /\ SubSeq(s, at, at + Len(prefix) - 1) = prefix

\* s.find(c) counted from 1, 0 when c is not in s
Find(s, cs) ==
    IF \E i \in 1..Len(s) : s[i] \in cs
    THEN CHOOSE i \in 1..Len(s) : s[i] \in cs /\ \A j \in 1..(i - 1) : s[j] \notin cs
    ELSE 0

----------------------------------------------------------------------------
(***************************************************************************)
(* SimpleNewsAnalyzer                                                      *)
(***************************************************************************)
suspicious_words ==
    { <<"s","h","o","c","k","i","n","g">>,
      <<"u","n","b","e","l","i","e","v","a","b","l","e">>,
      <<"m","i","r","a","c","l","e">>,
      <<"s","e","c","r","e","t">>,
      <<"c","o","n","s","p","i","r","a","c","y">>,
      <<"h","o","a","x">>,
      <<"s","c","a","n","d","a","l">>,
      <<"a","n","o","n","y","m","o","u","s">>,
      <<"c","l","a","i","m","s">>,
      <<"a","l","l","e","g","e","d","l","y">>,
      <<"r","u","m","o","r">>,
      <<"s","o","u","r","c","e","s"," ","s","a","y">>,
      <<"v","i","r","a","l">>,
      <<"s","e","n","s","a","t","i","o","n","a","l">>,
      <<"y","o","u"," ","w","o","n","'","t"," ","b","e","l","i","e","v","e">> }

credible_words ==
    { <<"r","e","s","e","a","r","c","h">>,
      <<"s","t","u","d","y">>,
      <<"e","v","i","d","e","n","c","e">>,
      <<"e","x","p","e","r","t">>,
      <<"o","f","f","i","c","i","a","l">>,
      <<"a","c","c","o","r","d","i","n","g"," ","t","o">>,
      <<"r","e","p","o","r","t">>,
      <<"a","n","a","l","y","s","i","s">>,
      <<"i","n","v","e","s","t","i","g","a","t","i","o","n">>,
      <<"c","o","n","f","i","r","m","e","d">>,
      <<"v","e","r","i","f","i","e","d">>,
      <<"s","o","u","r","c","e","s"," ","c","o","n","f","i","r","m","e","d">> }

\* The characters the class (?:[a-zA-Z]|[0-9]|[$-_@.&+]|[!*\(\),]|%hex hex) accepts
\* one at a time; [$-_] is the range from "$" to "_", so "%" is in it as well.
UrlChars ==
    Range(Uppers) \cup Range(Lowers) \cup Range(Digits) \cup
    { "$", "%", "&", "'", "(", ")", "*", "+", ",", "-", ".", "/", ":", ";", "<", "=", ">", "?", "@", "[", "\\", "]", "^", "_", "!" }

Http == <<"h","t","t","p">>

ColonSlashSlash == <<":","/","/">>

\* re.findall('http[s]?://(?:...)+', text) is not empty
has_url(t) ==
    \E i \in 1..Len(t) :
        /\ StartsWithAt(t, Http, i)
        /\ \E k \in {0, 1} :
              /\ k = 1 => (i + 4 <= Len(t) /\ t[i + 4] = "s")
              /\ StartsWithAt(t, ColonSlashSlash, i + 4 + k)
              /\ i + 7 + k <= Len(t)
              /\ t[i + 7 + k] \in UrlChars

suspicious_count(t) == Cardinality({ w \in suspicious_words : Contains(w, t) })

credible_count(t) == Cardinality({ w \in credible_words : Contains(w, t) })

PotentiallyMisleading == <<"p","o","t","e","n","t","i","a","l","l","y"," ","m","i","s","l","e","a","d","i","n","g">>

LikelyReliable == <<"l","i","k","e","l","y"," ","r","e","l","i","a","b","l","e">>

Unverified == <<"u","n","v","e","r","i","f","i","e","d">>

analyze_text_ge(raw) ==
    LET t == lower(raw)
        s == suspicious_count(t)
        c == credible_count(t)
    IN  IF s >= c + 1 THEN [labels |-> <<PotentiallyMisleading>>, scores |-> <<70>>]
        ELSE IF c > s \/ has_url(t) THEN [labels |-> <<LikelyReliable>>, scores |-> <<70>>]
        ELSE [labels |-> <<Unverified>>, scores |-> <<50>>]

analyze_text(raw) ==
    LET t == lower(raw)
        s == suspicious_count(t)
        c == credible_count(t)
    IN  IF s > c + 1 THEN [labels |-> <<PotentiallyMisleading>>, scores |-> <<70>>]
        ELSE IF c > s \/ has_url(t) THEN [labels |-> <<LikelyReliable>>, scores |-> <<70>>]
        ELSE [labels |-> <<Unverified>>, scores |-> <<50>>]

----------------------------------------------------------------------------
(***************************************************************************)
(* The analyzer on its own: a text is drawn, analyze_text is applied.      *)
(***************************************************************************)
\* The pieces the texts are put together from: URLs in both cases, a scheme
\* with nothing after it, suspicious and credible terms, the halves of the
\* two-word terms, and filler.
Pieces ==
    { <<"H","T","T","P","S",":","/","/","a",".","b">>,
      <<"h","t","t","p",":","/","/">>,
      <<"H","o","a","x"," ">>,
      <<"v","i","r","a","l"," ">>,
      <<"r","u","m","o","r">>,
      <<"S","t","u","d","y"," ">>,
      <<"s","o","u","r","c","e","s"," ">>,
      <<"c","o","n","f","i","r","m","e","d">>,
      <<"s","a","y">>,
      <<" ","x">> }

RECURSIVE Concats(_)
Concats(n) ==
    IF n = 0 THEN { <<>> }
    ELSE LET shorter == Concats(n - 1)
         IN  shorter \cup { p \o q : p \in shorter, q \in Pieces }

EmptyDict == [ k \in {} |-> 0 ]

NoPrediction == [ labels |-> <<>>, scores |-> <<>> ]

NoRequest == [ route |-> "none" ]

NoResponse == [ kind |-> "none" ]

IdleThreads == [ t \in {} |-> 0 ]

StoresAtStart ==
    /\ feedback_store = EmptyDict
    /\ feedback_file = EmptyDict
    /\ uploads_store = <<>>
    /\ uploads_file = <<>>
    /\ upload_folder = {}

InitAnalyze ==
    /\ text \in Concats(MaxPieces)
    /\ prediction = NoPrediction
    /\ StoresAtStart
    /\ request = NoRequest
    /\ response = NoResponse
    /\ fetch_calls = <<>>
    /\ threads = IdleThreads

AnalyzeText ==
    /\ prediction = NoPrediction
    /\ prediction' = analyze_text(text)
    /\ UNCHANGED << text, feedback_store, feedback_file, uploads_store, uploads_file,
                    upload_folder, request, response, fetch_calls, threads >>

NextAnalyze == AnalyzeText

SpecAnalyze == InitAnalyze /\ [][NextAnalyze]_vars

\* C1: analyze_text returns a result for every text and follows the ordered
\* policy: with s and c the numbers of suspicious and credible terms the
\* lower-cased text contains and u whether the URL pattern matches it,
\* 'potentially misleading' at 0.7 when s > c + 1, else 'likely reliable' at
\* 0.7 when c > s or u, else 'unverified' at 0.5.
C1_AnalyzerPolicy ==
    prediction # NoPrediction =>
        LET s == suspicious_count(lower(text))
            c == credible_count(lower(text))
            u == has_url(lower(text))
        IN  /\ s > c + 1 =>
                prediction = [labels |-> <<PotentiallyMisleading>>, scores |-> <<70>>]
            /\ (s <= c + 1 /\ (c > s \/ u)) =>
                prediction = [labels |-> <<LikelyReliable>>, scores |-> <<70>>]
            /\ (s <= c + 1 /\ c <= s /\ ~u) =>
                prediction = [labels |-> <<Unverified>>, scores |-> <<50>>]
            /\ (s = 0 /\ c = 0 /\ ~u) =>
                prediction = [labels |-> <<Unverified>>, scores |-> <<50>>]

\* Reached: a text with a URL, one suspicious term more than credible ones
\* (s = c + 1, no excess) and the label 'likely reliable'.
C1_Witness ==
    /\ prediction # NoPrediction
    /\ has_url(lower(text))
    /\ suspicious_count(lower(text)) = credible_count(lower(text)) + 1
    /\ prediction.labels = <<LikelyReliable>>

----------------------------------------------------------------------------
(***************************************************************************)
(* More string methods, used by the handlers.                              *)
(***************************************************************************)
Whitespace == { " " }

\* str.strip()
strip(s) ==
    IF \A i \in 1..Len(s) : s[i] \in Whitespace THEN <<>>
    ELSE LET first == CHOOSE i \in 1..Len(s) :
                          s[i] \notin Whitespace /\ \A j \in 1..(i - 1) : s[j] \in Whitespace
             last  == CHOOSE i \in 1..Len(s) :
                          s[i] \notin Whitespace /\ \A j \in (i + 1)..Len(s) : s[j] \in Whitespace
         IN  SubSeq(s, first, last)

\* s.rsplit(".", 1)[1], for an s that holds a "."
AfterLastDot(s) ==
    LET at == CHOOSE i \in 1..Len(s) : s[i] = "." /\ \A j \in (i + 1)..Len(s) : s[j] # "."
    IN  SubSeq(s, at + 1, Len(s))

\* str(n) for a natural number
RECURSIVE str(_)
str(n) == IF n < 10 THEN << Digits[n + 1] >> ELSE str(n \div 10) \o << Digits[(n % 10) + 1] >>

\* s[:n]
Take(s, n) == SubSeq(s, 1, IF Len(s) < n THEN Len(s) ELSE n)

----------------------------------------------------------------------------
(***************************************************************************)
(* Configuration and the two stores.                                       *)
(***************************************************************************)
ALLOWED_EXTENSIONS ==
    { <<"t","x","t">>, <<"p","d","f">>, <<"p","n","g">>,
      <<"j","p","g">>, <<"j","p","e","g">>, <<"m","p","4">> }

Real == <<"r","e","a","l">>

Fake == <<"f","a","k","e">>

\* {"real": 0, "fake": 0}
NewRecord == [ k \in { Real, Fake } |-> 0 ]

\* json.dump writes a key that is None as "null"; every other key of the
\* stores is a string and is written as it is.
JsonKey(k) == IF k = None THEN <<"n","u","l","l">> ELSE k

\* What json.dump writes for a value and json.load reads back: None is
\* written as the literal null, a string as itself.
JsonNull == <<"null">>

JsonValue(v) == IF v = None THEN JsonNull ELSE v

PyValue(j) == IF j = JsonNull THEN None ELSE j

\* json.dump(feedback_store, f): the document written.  The keys of a store
\* of this model never collide after JsonKey.
json_dump_feedback(store) ==
    [ name \in { JsonKey(k) : k \in DOMAIN store } |->
        store[CHOOSE k \in DOMAIN store : JsonKey(k) = name] ]

\* json.load(f) of feedback.json: object keys are read back as strings.
json_load_feedback(document) == document

\* json.dump(uploads_store, f)
json_dump_uploads(store) ==
    [ i \in 1..Len(store) |->
        [ filename |-> JsonValue(store[i].filename), topic |-> JsonValue(store[i].topic) ] ]

\* json.load(f) of uploads.json
json_load_uploads(document) ==
    [ i \in 1..Len(document) |->
        [ filename |-> PyValue(document[i].filename), topic |-> PyValue(document[i].topic) ] ]

allowed_file_no_lower(filename) ==
    /\ "." \in Range(filename)
    /\ AfterLastDot(filename) \in ALLOWED_EXTENSIONS

allowed_file(filename) ==
    /\ "." \in Range(filename)
    /\ lower(AfterLastDot(filename)) \in ALLOWED_EXTENSIONS

TruncatedPercent(num, den) == (num * 10000) \div den

\* round(x, 2) of x = num / den * 100, in hundredths: to the nearest, a tie to
\* the even one.
RoundedPercent(num, den) ==
    LET q == (num * 10000) \div den
        r == (num * 10000) % den
    IN  IF 2 * r > den \/ (2 * r = den /\ q % 2 = 1) THEN q + 1 ELSE q

get_feedback_percentages(news_id) ==
    LET feedback == IF news_id \in DOMAIN feedback_store
                    THEN feedback_store[news_id] ELSE NewRecord
        total == feedback[Real] + feedback[Fake]
    IN  IF total > 0
        THEN [ real_percentage |-> RoundedPercent(feedback[Real], total),
               fake_percentage |-> RoundedPercent(feedback[Fake], total) ]
        ELSE [ real_percentage |-> 0, fake_percentage |-> 0 ]

----------------------------------------------------------------------------
(***************************************************************************)
(* urlparse, as far as is_valid_url reads its result.                      *)
(***************************************************************************)
scheme_chars == Range(Uppers) \cup Range(Lowers) \cup Range(Digits) \cup { "+", "-", "." }

\* Where the scheme's ":" is, 0 when the URL has no scheme: the text before
\* the first ":" is not empty, starts with a letter and holds scheme_chars only.
SchemeEnd(url) ==
    LET i == Find(url, { ":" })
    IN  IF /\ i > 1
           /\ url[1] \in Range(Uppers) \cup Range(Lowers)
           /\ \A j \in 1..(i - 1) : url[j] \in scheme_chars
        THEN i ELSE 0

url_scheme(url) ==
    IF SchemeEnd(url) > 0 THEN lower(SubSeq(url, 1, SchemeEnd(url) - 1)) ELSE <<>>

\* The text between a leading "//" (after the scheme) and the next "/", "?" or "#".
url_netloc(url) ==
    LET rest == SubSeq(url, SchemeEnd(url) + 1, Len(url))
    IN  IF StartsWithAt(rest, << "/", "/" >>, 1)
        THEN LET tail == SubSeq(rest, 3, Len(rest))
                 stop == Find(tail, { "/", "?", "#" })
             IN  IF stop = 0 THEN tail ELSE SubSeq(tail, 1, stop - 1)
        ELSE <<>>

\* urlparse raises ValueError("Invalid IPv6 URL") on a netloc with one bracket only.
urlparse_raises(url) ==
    ("[" \in Range(url_netloc(url))) # ("]" \in Range(url_netloc(url)))

is_valid_url_scheme_only(url) ==
    /\ ~urlparse_raises(url)
    /\ url_scheme(url) # <<>>

is_valid_url(url) ==
    /\ ~urlparse_raises(url)
    /\ url_scheme(url) # <<>>
    /\ url_netloc(url) # <<>>

----------------------------------------------------------------------------
(***************************************************************************)
(* Responses.  A message is kept whole, as a one-element sequence.         *)
(***************************************************************************)
Msg(m) == << m >>

RenderIndex(articles, uploads, error_message) ==
    [ kind |-> "render", template |-> "index.html", articles |-> articles,
      uploads |-> uploads, error_message |-> error_message ]

RenderUpload == [ kind |-> "render", template |-> "upload.html" ]

Redirect(to) == [ kind |-> "redirect", to |-> to ]

\* An exception no handler catches, or an abort: Flask answers with this status.
Failed(status, exception) == [ kind |-> "error", status |-> status, exception |-> exception ]

----------------------------------------------------------------------------
(***************************************************************************)
(* POST /feedback                                                          *)
(***************************************************************************)
\* if news_id not in feedback_store: feedback_store[news_id] = {"real": 0, "fake": 0}
with_record(store, news_id) ==
    IF news_id \in DOMAIN store THEN store ELSE store @@ (news_id :> NewRecord)

\* feedback_store[news_id][is_real] += 1, for an is_real the record holds
increment(store, news_id, is_real) ==
    [ store EXCEPT ![news_id][is_real] = @ + 1 ]

RECURSIVE SumVotes(_, _)
SumVotes(store, keys) ==
    IF keys = {} THEN 0
    ELSE LET k == CHOOSE x \in keys : TRUE
         IN  store[k][Real] + store[k][Fake] + SumVotes(store, keys \ { k })

\* As feedback, but a vote kind the record lacks starts a counter of its own.
feedback_new_counter(news_id, is_real) ==
    LET present == with_record(feedback_store, news_id)
        before == IF is_real \in DOMAIN present[news_id] THEN present[news_id][is_real] ELSE 0
    IN  /\ request' = [ route |-> "feedback", method |-> "POST",
                        news_id |-> news_id, is_real |-> is_real ]
        /\ SumVotes(feedback_store, DOMAIN feedback_store) < MaxVotes
        /\ feedback_store' = [ present EXCEPT ![news_id] = (is_real :> (before + 1)) @@ @ ]
        /\ feedback_file' = json_dump_feedback(feedback_store')
        /\ response' = Redirect("index")
        /\ fetch_calls' = <<>>
        /\ UNCHANGED << text, prediction, uploads_store, uploads_file, upload_folder,
                        threads >>

\* As feedback, but save_feedback() runs before the increment.
feedback_save_first(news_id, is_real) ==
    LET present == with_record(feedback_store, news_id)
    IN  /\ request' = [ route |-> "feedback", method |-> "POST",
                        news_id |-> news_id, is_real |-> is_real ]
        /\ IF is_real \in DOMAIN present[news_id]
           THEN /\ SumVotes(feedback_store, DOMAIN feedback_store) < MaxVotes
                /\ feedback_store' = increment(present, news_id, is_real)
                /\ feedback_file' = json_dump_feedback(present)
                /\ response' = Redirect("index")
           ELSE /\ feedback_store' = present
                /\ feedback_file' = feedback_file
                /\ response' = Failed(500, "KeyError")
        /\ fetch_calls' = <<>>
        /\ UNCHANGED << text, prediction, uploads_store, uploads_file, upload_folder,
                        threads >>

\* The handler, for the form fields news_id and is_real.
feedback(news_id, is_real) ==
    LET present == with_record(feedback_store, news_id)
    IN  /\ request' = [ route |-> "feedback", method |-> "POST",
                        news_id |-> news_id, is_real |-> is_real ]
        /\ IF is_real \in DOMAIN present[news_id]
           THEN /\ SumVotes(feedback_store, DOMAIN feedback_store) < MaxVotes
                /\ feedback_store' = increment(present, news_id, is_real)
                /\ feedback_file' = json_dump_feedback(feedback_store')
                /\ response' = Redirect("index")
           ELSE \* KeyError at line 249: save_feedback() is not reached
                /\ feedback_store' = present
                /\ feedback_file' = feedback_file
                /\ response' = Failed(500, "KeyError")
        /\ fetch_calls' = <<>>
        /\ UNCHANGED << text, prediction, uploads_store, uploads_file, upload_folder,
                        threads >>

\* The feedback forms posted: votes on two article identifiers, a vote kind
\* that is neither 'real' nor 'fake' on an identifier that may have no record
\* yet, and a vote without the news_id field.
FeedbackForms ==
    { [ news_id |-> str(0), is_real |-> Real ],
      [ news_id |-> str(0), is_real |-> Fake ],
      [ news_id |-> str(1), is_real |-> Real ],
      [ news_id |-> str(1), is_real |-> <<"m","a","y","b","e">> ],
      [ news_id |-> None,   is_real |-> Real ] }

Feedback == \E form \in FeedbackForms : feedback(form.news_id, form.is_real)

\* The same forms with the news_id field.
Vote ==
    \E form \in { f \in FeedbackForms : f.news_id # None } :
        feedback(form.news_id, form.is_real)

----------------------------------------------------------------------------
(***************************************************************************)
(* GET and POST /upload                                                    *)
(***************************************************************************)
\* `file and allowed_file(file.filename)`: a FileStorage is true when its
\* filename is not empty.
accepts(filename) == filename # <<>> /\ allowed_file(filename)

\* The upload requests: accepted names (one with two dots and an upper-case
\* extension), rejected ones (exe, no dot, nothing after the last dot, no
\* name), with a topic or without the topic field, and a POST without the
\* file part.
NoFile == <<"no file part">>

UploadForms ==
    { [ filename |-> <<"a",".","p","d","f">>,         topic |-> <<"N","e","w","s">> ],
      [ filename |-> <<"b",".","x",".","J","P","G">>, topic |-> None ],
      [ filename |-> <<"c",".","e","x","e">>,         topic |-> <<"N","e","w","s">> ],
      [ filename |-> <<"p","d","f">>,                 topic |-> <<"N","e","w","s">> ],
      [ filename |-> <<"d",".","p","d","f",".">>,     topic |-> None ],
      [ filename |-> <<>>,                            topic |-> <<"N","e","w","s">> ],
      [ filename |-> NoFile,                          topic |-> <<"N","e","w","s">> ] }

Upload ==
    \E method \in { "GET", "POST" }, form \in UploadForms :
        /\ request' = [ route |-> "upload", method |-> method,
                        filename |-> form.filename, topic |-> form.topic ]
        /\ IF method = "POST" /\ form.filename # NoFile /\ accepts(form.filename)
           THEN /\ Len(uploads_store) < MaxUploads
                /\ upload_folder' = upload_folder \cup { form.filename }
                /\ uploads_store' = Append(uploads_store,
                                           [ filename |-> form.filename, topic |-> form.topic ])
                /\ uploads_file' = json_dump_uploads(uploads_store')
                /\ response' = Redirect("upload")
           ELSE /\ UNCHANGED << upload_folder, uploads_store, uploads_file >>
                /\ response' = IF method = "POST" /\ form.filename = NoFile
                               THEN Failed(400, "BadRequestKeyError")
                               ELSE RenderUpload
        /\ fetch_calls' = <<>>
        /\ UNCHANGED << text, prediction, feedback_store, feedback_file, threads >>

----------------------------------------------------------------------------
(***************************************************************************)
(* GET and POST /                                                          *)
(*                                                                         *)
(* What the two fetchers get from the network is the environment's choice: *)
(* for fetch_news a network failure, a status other than 200 or a list of  *)
(* upstream articles; for fetch_url_content a failure or a page, given by  *)
(* its <title> (None when it has none) and its flattened text.  An article *)
(* keeps the fields the handler reads (title, description, url).           *)
(***************************************************************************)
DescriptionChars == 500

UnableToAnalyze == <<"u","n","a","b","l","e"," ","t","o"," ","a","n","a","l","y","z","e">>

NotAvailable == <<"N","/","A">>

\* fetch_news, lines 102-112: the upstream articles with a title, a
\* description and a url, the first two stripped.
RECURSIVE valid_articles(_)
valid_articles(upstream) ==
    IF upstream = <<>> THEN <<>>
    ELSE LET article == Head(upstream)
             keep == /\ article.title \notin { None, <<>> }
                     /\ article.description \notin { None, <<>> }
                     /\ article.url \notin { None, <<>> }
         IN  (IF keep
              THEN << [ title |-> strip(article.title),
                        description |-> strip(article.description),
                        url |-> article.url ] >>
              ELSE <<>>) \o valid_articles(Tail(upstream))

\* fetch_url_content, lines 171-175
url_content(url, page) ==
    [ title |-> IF page.title = None THEN url ELSE page.title,
      description |-> Take(page.text, DescriptionChars),
      url |-> url ]

\* Line 216
text_to_analyze(article) == article.title \o << " " >> \o article.description

\* The queries: none and blank ones, a keyword with spaces around it, a URL
\* with an upper-case scheme, and four strings urlparse finds no scheme or no
\* host in (or raises on).
Queries ==
    { <<>>,
      <<" "," ">>,
      <<" ","n","e","w","s"," ">>,
      <<"H","T","T","P",":","/","/","a",".","b","/","N","e","w","s">>,
      <<"h","t","t","p",":","/","a",".","b">>,
      <<"/","/","a",".","b">>,
      <<"h","t","t","p",":","/","/","[","a">> }

UpstreamArticles ==
    { [ title |-> <<" ","H","o","a","x"," ","v","i","r","a","l">>,
        description |-> <<"r","u","m","o","r"," ">>,
        url |-> <<"h","t","t","p",":","/","/","x",".","y">> ],
      [ title |-> <<"S","t","u","d","y">>,
        description |-> <<"x">>,
        url |-> <<"h","t","t","p",":","/","/","z">> ],
      [ title |-> <<"x">>,
        description |-> None,
        url |-> <<"h","t","t","p",":","/","/","z">> ] }

\* The sequences of at most n different elements of S
RECURSIVE SeqsUpTo(_, _)
SeqsUpTo(S, n) ==
    IF n = 0 THEN { <<>> }
    ELSE LET shorter == SeqsUpTo(S, n - 1)
         IN  shorter \cup UNION { { Append(q, x) : x \in S \ Range(q) } : q \in shorter }

NewsOutcomes ==
    { [ kind |-> "network error", articles |-> <<>> ],
      [ kind |-> "status error", articles |-> <<>> ] }
    \cup { [ kind |-> "ok", articles |-> a ] : a \in SeqsUpTo(UpstreamArticles, MaxArticles) }

Pages ==
    { [ title |-> None, text |-> <<"x">> ],
      [ title |-> <<"R","u","m","o","r">>, text |-> <<"x">> ] }

UrlOutcomes ==
    { [ kind |-> "failed", page |-> [ title |-> None, text |-> <<>> ] ] }
    \cup { [ kind |-> "ok", page |-> page ] : page \in Pages }

\* The upstream's answer does not depend on the query.  Every answer is tried
\* with the keyword; the other queries that take the keyword path are tried
\* with a failure and with the answers of at most one article.
Keyword == <<"n","e","w","s">>

NewsOutcomesFor(query) ==
    IF query = Keyword THEN NewsOutcomes
    ELSE { outcome \in NewsOutcomes :
               outcome.kind = "network error" \/ Len(outcome.articles) = 1 }

\* analyze_text is a function of the text alone: what it returns for the
\* articles the fetchers can return is computed once.
FetchedArticles ==
    UNION { Range(valid_articles(outcome.articles)) : outcome \in NewsOutcomes }
    \cup { url_content(strip(raw), page) : raw \in Queries, page \in Pages }

Predictions == [ article \in FetchedArticles |-> analyze_text(text_to_analyze(article)) ]
\* One round of the loop of lines 214-230, for the article at `index`;
\* `raised` says whether the try block raised.
analysed_by_url(article, index, raised) ==
    [ title |-> article.title,
      description |-> article.description,
      url |-> article.url,
      prediction |-> IF raised THEN UnableToAnalyze ELSE Predictions[article].labels[1],
      confidence |-> IF raised THEN NotAvailable
                     ELSE str(Predictions[article].scores[1]) \o << "%" >>,
      id |-> article.url,
      real_percentage |-> get_feedback_percentages(article.url).real_percentage,
      fake_percentage |-> get_feedback_percentages(article.url).fake_percentage ]

analysed(article, index, raised) ==
    [ title |-> article.title,
      description |-> article.description,
      url |-> article.url,
      prediction |-> IF raised THEN UnableToAnalyze ELSE Predictions[article].labels[1],
      confidence |-> IF raised THEN NotAvailable
                     ELSE str(Predictions[article].scores[1]) \o << "%" >>,
      id |-> str(index),
      real_percentage |-> get_feedback_percentages(str(index)).real_percentage,
      fake_percentage |-> get_feedback_percentages(str(index)).fake_percentage ]

\* Line 233 raises AttributeError when a stored topic is None.
related_uploads_raises == \E i \in 1..Len(uploads_store) : uploads_store[i].topic = None

\* Line 233, when it does not raise
related_uploads(query) ==
    LET Related(upload) == Contains(lower(query), lower(upload.topic))
    IN  SelectSeq(uploads_store, Related)

rendered_until_failure(query, articles, error_message, raises) ==
    LET analysed_articles ==
            [ i \in 1..Len(articles) |-> analysed(articles[i], i - 1, i \in raises) ]
        kept == IF raises = {} THEN analysed_articles
                ELSE SubSeq(analysed_articles, 1,
                            CHOOSE i \in raises : \A j \in raises : i <= j)
    IN  IF related_uploads_raises
        THEN RenderIndex(kept, <<>>, Msg("'NoneType' object has no attribute 'lower'"))
        ELSE RenderIndex(kept, related_uploads(query), error_message)

\* Lines 211-239 once the fetch has returned `articles`: the loop, the
\* related uploads, and the handler's except clause for line 233.
rendered(query, articles, error_message, raises) ==
    LET analysed_articles ==
            [ i \in 1..Len(articles) |-> analysed(articles[i], i - 1, i \in raises) ]
    IN  IF related_uploads_raises
        THEN RenderIndex(analysed_articles, <<>>,
                         Msg("'NoneType' object has no attribute 'lower'"))
        ELSE RenderIndex(analysed_articles, related_uploads(query), error_message)

Index ==
    \E method \in { "GET", "POST" }, raw \in Queries :
        /\ method = "GET" => raw = <<>>
        /\ request' = [ route |-> "index", method |-> method, query |-> raw ]
        /\ \E query \in { strip(raw) } :
           IF method = "GET"
           THEN /\ response' = RenderIndex(<<>>, <<>>, None)
                /\ fetch_calls' = <<>>
           ELSE IF query = <<>>
           THEN /\ response' = RenderIndex(<<>>, <<>>, Msg("Please enter a search query"))
                /\ fetch_calls' = <<>>
           ELSE IF is_valid_url(query)
           THEN \E outcome \in UrlOutcomes :
                    /\ fetch_calls' = << [ fetcher |-> "fetch_url_content",
                                           result |-> outcome.kind,
                                           returned |-> IF outcome.kind = "ok" THEN 1 ELSE 0 ] >>
                    /\ IF outcome.kind = "failed"
                       THEN response' = rendered(query, <<>>,
                                Msg("Could not fetch content from the provided URL"), {})
                       ELSE \E raises \in SUBSET { 1 } :
                                response' = rendered(query,
                                    << url_content(query, outcome.page) >>, None, raises)
           ELSE \E outcome \in NewsOutcomesFor(query) :
                    /\ fetch_calls' = << [ fetcher |-> "fetch_news",
                                           result |-> outcome.kind,
                                           returned |-> Len(valid_articles(outcome.articles)) ] >>
                    /\ IF outcome.kind = "network error"
                       THEN response' = RenderIndex(<<>>, <<>>,
                                Msg("Failed to connect to news service. Please check your internet connection."))
                       ELSE IF outcome.kind = "status error"
                       THEN response' = RenderIndex(<<>>, <<>>, Msg("NewsAPI error: Unknown error"))
                       ELSE \E articles \in { valid_articles(outcome.articles) } :
                            \E raises \in SUBSET (1..Len(articles)) :
                                response' = rendered(query, articles, None, raises)
        /\ UNCHANGED << text, prediction, feedback_store, feedback_file, uploads_store,
                        uploads_file, upload_folder, threads >>

----------------------------------------------------------------------------
(***************************************************************************)
(* The handlers, one request at a time.                                    *)
(*                                                                         *)
(* Spec runs all three from the state the module leaves when neither file  *)
(* existed at start.  Its state space is the product of the stores and the *)
(* last response, so two restrictions of it are checked: SpecStores runs   *)
(* the two handlers that write the stores, and SpecSearch runs the search  *)
(* and the votes of its page, started with an uploads.json an earlier run  *)
(* may have left (index does not write the stores).                        *)
(***************************************************************************)
Init ==
    /\ text = <<>>
    /\ prediction = NoPrediction
    /\ StoresAtStart
    /\ request = NoRequest
    /\ response = NoResponse
    /\ fetch_calls = <<>>
    /\ threads = IdleThreads

Next == Index \/ Feedback \/ Upload

Spec == Init /\ [][Next]_vars

NextStores == Feedback \/ Upload

SpecStores == Init /\ [][NextStores]_vars

\* The upload stores a run starts with: none, and one record with and
\* without a topic.
StartupUploads ==
    { <<>>,
      << [ filename |-> <<"a",".","p","d","f">>, topic |-> <<"N","e","w","s">> ] >>,
      << [ filename |-> <<"b",".","x",".","J","P","G">>, topic |-> None ] >> }

InitSearch ==
    /\ text = <<>>
    /\ prediction = NoPrediction
    /\ feedback_store = EmptyDict
    /\ feedback_file = EmptyDict
    /\ \E uploads \in StartupUploads :
          /\ uploads_file = json_dump_uploads(uploads)
          /\ uploads_store = json_load_uploads(json_dump_uploads(uploads))
          /\ upload_folder = { uploads[i].filename : i \in 1..Len(uploads) }
    /\ request = NoRequest
    /\ response = NoResponse
    /\ fetch_calls = <<>>
    /\ threads = IdleThreads

NextSearch == Index \/ Vote

SpecSearch == InitSearch /\ [][NextSearch]_vars

----------------------------------------------------------------------------
(***************************************************************************)
(* Properties of the search.                                               *)
(***************************************************************************)
IsSearch == request.route = "index" /\ request.method = "POST" /\ strip(request.query) # <<>>

\* C2: a non-blank query takes exactly one fetch path: the URL content
\* fetcher when urlparse gives it both a scheme and a host (also when that
\* fetch fails), the news fetcher when it has no scheme or no host.
C2_OneFetchPath ==
    IsSearch =>
        LET query == strip(request.query)
            scheme_and_host == /\ ~urlparse_raises(query)
                               /\ url_scheme(query) # <<>>
                               /\ url_netloc(query) # <<>>
        IN  /\ Len(fetch_calls) = 1
            /\ scheme_and_host => fetch_calls[1].fetcher = "fetch_url_content"
            /\ ~scheme_and_host => fetch_calls[1].fetcher = "fetch_news"

\* Reached: a URL whose fetch failed, served without a call of fetch_news.
C2_Witness ==
    /\ IsSearch
    /\ url_scheme(strip(request.query)) = <<"h","t","t","p">>
    /\ url_netloc(strip(request.query)) = <<"a",".","b">>
    /\ fetch_calls = << [ fetcher |-> "fetch_url_content", result |-> "failed", returned |-> 0 ] >>

\* p is num / den * 100 rounded to two places (in hundredths), 0 when den is 0
IsRoundedPercent(p, num, den) ==
    IF den = 0 THEN p = 0
    ELSE /\ 2 * (p * den - num * 10000) <= den
         /\ 2 * (num * 10000 - p * den) <= den

VotesFor(news_id, kind) ==
    IF news_id \in DOMAIN feedback_store THEN feedback_store[news_id][kind] ELSE 0

IsIndexPage(r) == r.kind = "render" /\ r.template = "index.html"

\* C4: the percentages looked up for an identifier are (0, 0) when it has no
\* record or no votes, and otherwise real / (real + fake) * 100 and
\* fake / (real + fake) * 100 rounded to two places, (75.0, 25.0) after 3
\* 'real' and 1 'fake'; the lookup leaves the Feedback Store as it is.
C4_Percentages ==
    [][ /\ request'.route = "index" =>
              /\ feedback_store' = feedback_store
              /\ feedback_file' = feedback_file
        /\ IsIndexPage(response') =>
              \A i \in 1..Len(response'.articles) :
                  LET id == response'.articles[i].id
                      real == IF id \in DOMAIN feedback_store' THEN feedback_store'[id][Real] ELSE 0
                      fake == IF id \in DOMAIN feedback_store' THEN feedback_store'[id][Fake] ELSE 0
                      shown == response'.articles[i]
                  IN  /\ IsRoundedPercent(shown.real_percentage, real, real + fake)
                      /\ IsRoundedPercent(shown.fake_percentage, fake, real + fake)
                      /\ (real = 3 /\ fake = 1) =>
                            (shown.real_percentage = 7500 /\ shown.fake_percentage = 2500)
      ]_vars

\* Reached: a page showing (75.0, 25.0) for 3 'real' and 1 'fake' on "0", and
\* (0, 0) for "1", which has a record without votes.
C4_Witness ==
    /\ IsIndexPage(response)
    /\ Len(response.articles) = 2
    /\ VotesFor(str(0), Real) = 3 /\ VotesFor(str(0), Fake) = 1
    /\ response.articles[1].real_percentage = 7500
    /\ response.articles[1].fake_percentage = 2500
    /\ str(1) \in DOMAIN feedback_store
    /\ response.articles[2].real_percentage = 0
    /\ response.articles[2].fake_percentage = 0


FetchRaised ==
    /\ Len(fetch_calls) = 1
    /\ fetch_calls[1].fetcher = "fetch_news"
    /\ fetch_calls[1].result \in { "network error", "status error" }

UrlFetchReturnedNone ==
    /\ Len(fetch_calls) = 1
    /\ fetch_calls[1].fetcher = "fetch_url_content"
    /\ fetch_calls[1].result = "failed"

\* What the page shows of an article the analyzer was applied to.
IsAnalysed(shown) ==
    LET fetched == [ title |-> shown.title, description |-> shown.description,
                     url |-> shown.url ]
    IN  /\ shown.prediction = Predictions[fetched].labels[1]
        /\ shown.prediction \in { PotentiallyMisleading, LikelyReliable, Unverified }
        /\ shown.confidence = str(Predictions[fetched].scores[1]) \o << "%" >>

IsUnableToAnalyze(shown) ==
    shown.prediction = UnableToAnalyze /\ shown.confidence = NotAvailable

\* C8: a search whose fetch raises answers with a page-level error message
\* and no articles and leaves both stores as they are; so does one whose URL
\* fetch returns nothing.  An article whose analysis fails is returned as
\* 'unable to analyze' with confidence 'N/A', and every article the fetch
\* returned is on the page, each of the others analysed.
C8_SearchErrors ==
    [][ request'.route = "index" =>
          /\ UNCHANGED << feedback_store, feedback_file, uploads_store, uploads_file,
                          upload_folder >>
          /\ (FetchRaised' \/ UrlFetchReturnedNone') =>
                /\ response'.error_message # None
                /\ response'.articles = <<>>
          /\ IsIndexPage(response')
          /\ Len(fetch_calls') = 1 =>
                /\ Len(response'.articles) = fetch_calls'[1].returned
                /\ \A i \in 1..Len(response'.articles) :
                      /\ IsAnalysed(response'.articles[i])
                            \/ IsUnableToAnalyze(response'.articles[i])
                      /\ response'.articles[i].id = str(i - 1)
      ]_vars

\* Reached: two articles returned, the analysis of the first failed and the
\* second is analysed.
C8_Witness ==
    /\ IsIndexPage(response)
    /\ Len(response.articles) = 2
    /\ IsUnableToAnalyze(response.articles[1])
    /\ IsAnalysed(response.articles[2])
    /\ response.articles[2].prediction = PotentiallyMisleading

\* C9: an article's identifier is its position in the search, from "0": the
\* article at index i is shown the percentages of the votes recorded against
\* str(i), whatever the query and the article, and two searches in a row show
\* the same percentages at an index both have.
C9_KeyedByPosition ==
    [][ IsIndexPage(response') =>
          /\ \A i \in 1..Len(response'.articles) :
                LET shown == response'.articles[i]
                    real == VotesFor(str(i - 1), Real)'
                    fake == VotesFor(str(i - 1), Fake)'
                IN  /\ shown.id = str(i - 1)
                    /\ IsRoundedPercent(shown.real_percentage, real, real + fake)
                    /\ IsRoundedPercent(shown.fake_percentage, fake, real + fake)
          /\ IsIndexPage(response) =>
                \A i \in 1..Len(response'.articles) :
                    i <= Len(response.articles) =>
                        /\ response'.articles[i].real_percentage
                              = response.articles[i].real_percentage
                        /\ response'.articles[i].fake_percentage
                              = response.articles[i].fake_percentage
      ]_vars

\* Reached: after votes on "0" and "1", the page of a URL and a page of news
\* articles show them at index 0 and at index 1.
C9_Witness ==
    /\ IsIndexPage(response)
    /\ Len(response.articles) = 2
    /\ VotesFor(str(0), Fake) > 0
    /\ response.articles[1].fake_percentage > 0
    /\ VotesFor(str(1), Real) > 0
    /\ response.articles[2].real_percentage = 10000
    /\ response.articles[1].url # response.articles[2].url


----------------------------------------------------------------------------
(***************************************************************************)
(* Properties of the stores.                                               *)
(***************************************************************************)
\* The name holds a "." and what follows its last "." is, lower-cased, an
\* allowed extension (no allowed extension holds a ".").
HasAllowedExtension(filename) ==
    \E k \in 1..Len(filename) :
        /\ filename[k] = "."
        /\ lower(SubSeq(filename, k + 1, Len(filename))) \in ALLOWED_EXTENSIONS

\* C3: an upload changes the Upload Store exactly when the file's name has an
\* allowed extension: then one {filename, topic} record is appended at the
\* end, the store is written to its file and the file is saved; otherwise no
\* file is saved and the store and its file stay as they are.
C3_UploadIffAllowed ==
    [][ request'.route = "upload" =>
          IF /\ request'.method = "POST"
             /\ request'.filename # NoFile
             /\ HasAllowedExtension(request'.filename)
          THEN /\ uploads_store' = Append(uploads_store,
                      [ filename |-> request'.filename, topic |-> request'.topic ])
               /\ json_load_uploads(uploads_file') = uploads_store'
               /\ upload_folder' = upload_folder \cup { request'.filename }
          ELSE UNCHANGED << uploads_store, uploads_file, upload_folder >>
      ]_vars

\* Reached: b.x.JPG accepted after a.pdf and appended at the end.
C3_Witness ==
    /\ request.route = "upload"
    /\ request.filename = <<"b",".","x",".","J","P","G">>
    /\ Len(uploads_store) = 2
    /\ uploads_store[1].filename = <<"a",".","p","d","f">>
    /\ uploads_store[2] = [ filename |-> <<"b",".","x",".","J","P","G">>, topic |-> None ]
    /\ <<"c",".","e","x","e">> \notin upload_folder

\* C5: after a feedback request with vote kind 'real' or 'fake', in a store
\* whose requests all carried an identifier, the store reloaded from its file
\* has the same records with the same counts as the store in memory.
C5_FeedbackRoundTrip ==
    ( /\ request.route = "feedback"
      /\ request.is_real \in { Real, Fake }
      /\ None \notin DOMAIN feedback_store )
    => /\ DOMAIN json_load_feedback(feedback_file) = DOMAIN feedback_store
       /\ \A news_id \in DOMAIN feedback_store :
             json_load_feedback(feedback_file)[news_id] = feedback_store[news_id]

\* Reached: two records with votes, written and read back.
C5_Witness ==
    /\ request.route = "feedback"
    /\ request.is_real \in { Real, Fake }
    /\ DOMAIN feedback_store = { str(0), str(1) }
    /\ feedback_store[str(0)][Fake] = 1
    /\ feedback_store[str(1)][Real] = 2
    /\ json_load_feedback(feedback_file) = feedback_store

IsOtherKind(kind) == kind \notin { Real, Fake }

\* C6 as stated: a feedback request with another vote kind completes without
\* error and the identifier's record gains that key with count 1.
C6_NewCounterKey ==
    ( request.route = "feedback" /\ IsOtherKind(request.is_real) )
    => /\ response.kind = "redirect"
       /\ request.is_real \in DOMAIN feedback_store[request.news_id]
       /\ feedback_store[request.news_id][request.is_real] = 1

\* C6, amended: the vote kind is not validated, and a feedback request with
\* another vote kind fails with KeyError: no counter key is created, an
\* identifier without a record gets the record {real: 0, fake: 0}, every
\* other record stays as it is, and the file is not written.
C6_KeyErrorOnOtherKind ==
    [][ ( request'.route = "feedback" /\ IsOtherKind(request'.is_real) )
        => /\ response' = Failed(500, "KeyError")
           /\ feedback_file' = feedback_file
           /\ DOMAIN feedback_store' = DOMAIN feedback_store \cup { request'.news_id }
           /\ \A news_id \in DOMAIN feedback_store :
                 feedback_store'[news_id] = feedback_store[news_id]
           /\ DOMAIN feedback_store'[request'.news_id] = { Real, Fake }
           /\ request'.news_id \notin DOMAIN feedback_store =>
                 feedback_store'[request'.news_id] = NewRecord
      ]_vars

\* Reached: the request failed on an identifier that had no record, which
\* now has one without votes that the file lacks.
C6_Witness ==
    /\ request.route = "feedback"
    /\ IsOtherKind(request.is_real)
    /\ response = Failed(500, "KeyError")
    /\ feedback_store[request.news_id] = NewRecord
    /\ request.news_id \notin DOMAIN json_load_feedback(feedback_file)

\* C10 as stated, for stores whose requests all carried an identifier:
\* between requests each store equals what its file holds, and a request that
\* ended in an error left the store in memory as it was.
C10_StoresMatchFiles ==
    None \notin DOMAIN feedback_store =>
        /\ json_load_feedback(feedback_file) = feedback_store
        /\ json_load_uploads(uploads_file) = uploads_store


----------------------------------------------------------------------------
(***************************************************************************)
(* POST /feedback handled by two threads of one process.  The handler     *)
(* takes no lock, so each access to feedback_store and to the file is a    *)
(* step of its own, and the steps of the two threads interleave freely.    *)
(***************************************************************************)
Threads == { 1, 2 }

\* feedback.json as loaded at startup
StartupFeedback == str(0) :> [ k \in { Real, Fake } |-> IF k = Real THEN 1 ELSE 0 ]

RaceForms == { [ news_id |-> n, is_real |-> k ] : n \in { str(0), str(1) }, k \in { Real, Fake } }

Waiting == [ pc |-> "idle" ]

InitRace ==
    /\ text = <<>>
    /\ prediction = NoPrediction
    /\ feedback_file = json_dump_feedback(StartupFeedback)
    /\ feedback_store = json_load_feedback(json_dump_feedback(StartupFeedback))
    /\ uploads_store = <<>>
    /\ uploads_file = <<>>
    /\ upload_folder = {}
    /\ request = NoRequest
    /\ response = NoResponse
    /\ fetch_calls = <<>>
    /\ threads = [ t \in Threads |-> Waiting ]

Busy(t) == threads[t].pc \notin { "idle", "done" }

UnchangedByThreads ==
    UNCHANGED << text, prediction, uploads_store, uploads_file, upload_folder,
                 request, response, fetch_calls >>

\* The form fields are read; alone records whether no other handler was
\* under way when this one started.
Receive(t) ==
    /\ threads[t].pc = "idle"
    /\ \E form \in RaceForms :
          threads' = [ threads EXCEPT ![t] =
                         [ pc |-> "check", news_id |-> form.news_id, is_real |-> form.is_real,
                           alone |-> \A u \in Threads \ { t } : ~Busy(u),
                           detached |-> FALSE, record |-> NewRecord, value |-> 0,
                           document |-> EmptyDict ] ]
    /\ UNCHANGED << feedback_store, feedback_file >>
    /\ UnchangedByThreads

\* As Check, but the record is taken to be absent whatever the store holds.
CheckAlwaysAbsent(t) ==
    /\ threads[t].pc = "check"
    /\ threads' = [ threads EXCEPT ![t].pc = "initialise" ]
    /\ UNCHANGED << feedback_store, feedback_file >>
    /\ UnchangedByThreads

\* if news_id not in feedback_store:
Check(t) ==
    /\ threads[t].pc = "check"
    /\ threads' = [ threads EXCEPT ![t].pc =
                      IF threads[t].news_id \notin DOMAIN feedback_store
                      THEN "initialise" ELSE "subscript" ]
    /\ UNCHANGED << feedback_store, feedback_file >>
    /\ UnchangedByThreads

\* feedback_store[news_id] = {"real": 0, "fake": 0}: a new dict takes the
\* key; a thread that holds the dict the key had keeps that dict, which the
\* store no longer reaches.
Initialise(t) ==
    /\ threads[t].pc = "initialise"
    /\ feedback_store' = (threads[t].news_id :> NewRecord) @@ feedback_store
    /\ threads' = [ u \in Threads |->
                      IF u = t THEN [ threads[t] EXCEPT !.pc = "subscript" ]
                      ELSE IF /\ threads[u].pc \in { "read", "write" }
                              /\ threads[u].news_id = threads[t].news_id
                              /\ ~threads[u].detached
                           THEN [ threads[u] EXCEPT !.detached = TRUE,
                                                    !.record = feedback_store[threads[t].news_id] ]
                           ELSE threads[u] ]
    /\ UNCHANGED feedback_file
    /\ UnchangedByThreads

\* feedback_store[news_id] of line 249: the dict of the record is taken.
Subscript(t) ==
    /\ threads[t].pc = "subscript"
    /\ threads' = [ threads EXCEPT ![t].pc = "read" ]
    /\ UNCHANGED << feedback_store, feedback_file >>
    /\ UnchangedByThreads

\* ...[is_real] of `+= 1`: the counter is read from that dict.
Read(t) ==
    /\ threads[t].pc = "read"
    /\ threads' = [ threads EXCEPT ![t].pc = "write",
                                   ![t].value =
                                       IF threads[t].detached
                                       THEN threads[t].record[threads[t].is_real]
                                       ELSE feedback_store[threads[t].news_id][threads[t].is_real] ]
    /\ UNCHANGED << feedback_store, feedback_file >>
    /\ UnchangedByThreads

\* ...[is_real] = value + 1: the sum is stored in that dict.
Write(t) ==
    /\ threads[t].pc = "write"
    /\ IF threads[t].detached
       THEN /\ threads' = [ threads EXCEPT ![t].pc = "dump",
                                           ![t].record[threads[t].is_real] = threads[t].value + 1 ]
            /\ UNCHANGED feedback_store
       ELSE /\ threads' = [ threads EXCEPT ![t].pc = "dump" ]
            /\ feedback_store' = [ feedback_store EXCEPT
                                     ![threads[t].news_id][threads[t].is_real] = threads[t].value + 1 ]
    /\ UNCHANGED feedback_file
    /\ UnchangedByThreads

\* save_feedback(): json.dump encodes the store as it is now into the
\* buffer of the file object.
Dump(t) ==
    /\ threads[t].pc = "dump"
    /\ threads' = [ threads EXCEPT ![t].pc = "close",
                                   ![t].document = json_dump_feedback(feedback_store) ]
    /\ UNCHANGED << feedback_store, feedback_file >>
    /\ UnchangedByThreads

\* The end of the with block: the buffer reaches the file, and the handler
\* returns its redirect.
Close(t) ==
    /\ threads[t].pc = "close"
    /\ feedback_file' = threads[t].document
    /\ threads' = [ threads EXCEPT ![t].pc = "done" ]
    /\ UNCHANGED feedback_store
    /\ UnchangedByThreads

NextRace ==
    \E t \in Threads :
        \/ Receive(t)
        \/ Check(t)
        \/ Initialise(t)
        \/ Subscript(t)
        \/ Read(t)
        \/ Write(t)
        \/ Dump(t)
        \/ Close(t)

SpecRace == InitRace /\ [][NextRace]_vars

----------------------------------------------------------------------------
(***************************************************************************)
(* Properties of concurrent feedback.                                      *)
(***************************************************************************)
\* Both requests are over, and they were for one identifier and vote kind.
BothVotedTheSame ==
    /\ \A t \in Threads : threads[t].pc = "done"
    /\ threads[1].news_id = threads[2].news_id
    /\ threads[1].is_real = threads[2].is_real

CounterAtStartup(news_id, is_real) ==
    IF news_id \in DOMAIN StartupFeedback THEN StartupFeedback[news_id][is_real] ELSE 0

GrowthInMemory ==
    feedback_store[threads[1].news_id][threads[1].is_real]
        - CounterAtStartup(threads[1].news_id, threads[1].is_real)

GrowthInFile ==
    json_load_feedback(feedback_file)[threads[1].news_id][threads[1].is_real]
        - CounterAtStartup(threads[1].news_id, threads[1].is_real)

\* C7: no lock orders the steps of two feedback requests.  After two
\* requests for the same identifier and vote kind the counter has grown by 1
\* or by 2 in memory and by at most that in the file; it has grown by 2 in
\* both whenever neither request started while the other was under way, so a
\* smaller growth is an update lost to the interleaving of the two.
C7_LostUpdateOnlyByOverlap ==
    BothVotedTheSame =>
        /\ GrowthInMemory \in { 1, 2 }
        /\ GrowthInFile \in { 0, 1, 2 }
        /\ GrowthInFile <= GrowthInMemory
        /\ (\A t \in Threads : threads[t].alone) =>
               GrowthInMemory = 2 /\ GrowthInFile = 2

\* Reached: the two requests are over and the counter has grown by 1 only,
\* in memory or in the file.
C7_Witness ==
    /\ BothVotedTheSame
    /\ GrowthInMemory = 1 \/ GrowthInFile = 1
====
